---- MODULE Spec2Model ----
(***************************************************************************)
(* The book-lending workflow of the Prayer Cell Library portal: the        *)
(* Catalog Store ("books"), the Request Store ("bookRequests") and the     *)
(* pages of signed-in member and admin sessions that read and write them.  *)
(* Every remote call of a handler is one step, so that the handlers of     *)
(* different sessions interleave between their awaits as they do in the    *)
(* browser; a remote call either succeeds or throws.                       *)
(***************************************************************************)
EXTENDS Integers, Sequences, FiniteSets, TLC

\* ---------------------------------------------------------------- bounds
MaxBooks == 1
MaxRequests == 2
MaxClock == 1
MaxStarts == 7
MaxSoloStarts == 6
MaxQueued == 1

\* the sessions: each is the browser tab of a signed-in member or admin
Users == {1, 2}
Admins == {1, 2}

\* ------------------------------------------------------------- constants
BORROW_DAYS == 15
MsPerDay == 24 * 60 * 60 * 1000

VARIABLES
    books,          \* Catalog Store: book id (1..Len) -> document
    bookRequests,   \* Request Store: request id (1..Len) -> document
    now,            \* the clock read by new Date(), in ms
    uview,          \* member session: the page shown and the data it loaded
    upc,            \* member session: position in handleRequestBook
    uarg,           \* member session: the document handleRequestBook writes and its id
    utoast,         \* member session: the notice on screen (gone at the next action)
    aview,          \* admin session: the page shown and the data it loaded
    apc,            \* admin session: position in the running handler
    aarg,           \* admin session: the running handler's arguments and writes
    atoast,         \* admin session: the notice on screen (gone at the next action)
    aqueue,         \* admin session: the writes of the books page issued while an
                    \* earlier one is outstanding, in the order issued
    deletedBooks,   \* history: the books a handleDeleteBook write has deleted
    started,        \* history: the page loads and handler runs started so far
    env,            \* process.env: the settings of the deployment
    accounts,       \* Identity Gateway: the emails that have an account (uid = email)
    users,          \* Profile Store: uid -> profile document
    firebaseUser,   \* per session: the identity the gateway has signed in
    profileReads,   \* per session: the uids whose profile the listener is reading
    user,           \* per session: the actor record of the auth context
    fpc,            \* per session: position in the register or login form's onSubmit
    farg,           \* per session: the values the form submitted
    ftoast,         \* per session: the notice of the form (gone at the next submit)
    http,           \* the last exchange at the route handlers called directly
    issued,         \* history: the services that were sent an operation
    roleAtCreation, \* history: uid -> the role its profile was created with
    undo            \* history: per admin session, the book its last landed toggle
                    \* wrote, the status stored before it ("stale" if the page
                    \* showed another) and the toggles landed in a row, while no
                    \* other write to a book has landed since

\* the state of the access-control side, which no lending step changes
accessVars == <<env, accounts, users, firebaseUser, profileReads, user, fpc, farg, ftoast,
                http, roleAtCreation>>

\* the state of the lending side
lendingVars == <<books, bookRequests, now, uview, upc, uarg, utoast, aview, apc, aarg,
                 atoast, deletedBooks, aqueue, undo>>

vars == <<books, bookRequests, now, uview, upc, uarg, utoast, aview, apc, aarg, atoast,
          deletedBooks, aqueue, started, env, accounts, users, firebaseUser, profileReads, user,
          fpc, farg, ftoast, http, issued, roleAtCreation, undo>>

\* ----------------------------------------------------------------- dates
\* date-fns addDays on a Date held as ms since the epoch
addDays(t, n) == t + n * MsPerDay

\* Date.prototype.toISOString: the calendar day and the time of day
toISOString(t) == <<t \div MsPerDay, t % MsPerDay>>

\* new Date(isoString).getTime()
parseDate(iso) == iso[1] * MsPerDay + iso[2]

\* ------------------------------------------------------------- documents
\* updateDoc: the named fields are overwritten, the others kept
updateDoc(d, patch) ==
    [f \in DOMAIN d |-> IF f \in DOMAIN patch THEN patch[f] ELSE d[f]]

NoPage == [page |-> "none"]
NoArg == [op |-> "none"]

\* where("status", "!=", "deleted"): the documents a books listing returns
ListedBooks(bs) == {b \in DOMAIN bs : bs[b].status # "deleted"}

\* querySnapshot.forEach(doc => booksData.push({id: doc.id, ...doc.data()}))
BooksListing(bs) == [b \in ListedBooks(bs) |-> bs[b]]

EmptyListing == [b \in {} |-> NoPage]

\* -------------------------------------------------------------- settings
\* a JavaScript value: undefined, or a string
Undefined == <<"undefined", "">>
Str(v) == <<"string", v>>

\* a JavaScript value: null, or an object such as a File
Null == <<"null", "">>
Obj(v) == <<"object", v>>

\* !!v
Truthy(v) == IF v[1] = "string" THEN v[2] # "" ELSE v[1] = "object"

\* the settings a deployment may run with
Envs ==
    [apiKey : {Undefined, Str("undefined"), Str("key")},
     authDomain : {Undefined, Str("domain")},
     projectId : {Undefined, Str("project")},
     ADMIN_SECRET_CODE : {Undefined, Str("secret")}]

firebaseConfig ==
    [apiKey |-> env.apiKey, authDomain |-> env.authDomain, projectId |-> env.projectId]

\* (mutation of isFirebaseConfigured: the placeholder key is not recognised)
isFirebaseConfiguredAnyKey ==
    /\ Truthy(firebaseConfig.apiKey)
    /\ Truthy(firebaseConfig.authDomain)
    /\ Truthy(firebaseConfig.projectId)

isFirebaseConfigured ==
    /\ Truthy(firebaseConfig.apiKey)
    /\ firebaseConfig.apiKey # Str("undefined")
    /\ Truthy(firebaseConfig.authDomain)
    /\ Truthy(firebaseConfig.projectId)

\* an operation on auth or db: the clients are created only if the settings
\* are complete, and without a client the call throws before anything is sent
Call(service, ok) ==
    /\ ok => isFirebaseConfigured
    /\ issued' = IF isFirebaseConfigured THEN issued \cup {service} ELSE issued

\* -------------------------------------------------------------- sessions
\* the browser sessions: those in which the member pages are opened and those
\* in which the admin pages are opened
MemberTab(u) == <<"member", u>>
AdminTab(a) == <<"admin", a>>
Sessions == {MemberTab(u) : u \in Users} \cup {AdminTab(a) : a \in Admins}

\* the emails the forms are submitted with
Emails == {"ann@example.org"}

\* the context's user: null, or the uid and the role of the stored profile
NoUser == [uid |-> "null", role |-> "none"]
UserData(uid, profile) == [uid |-> uid, role |-> profile.role]

NoForm == [form |-> "none"]

\* the notice of a form or menu: the page that shows it and its title
NoNotice == <<"none", "none">>
NoExchange == [endpoint |-> "none"]
NoUndo == [book |-> 0, status |-> "none", toggles |-> 0]

\* the actors of the sessions that start signed in
ActorUid(s) ==
    CASE s = MemberTab(1) -> "mary"
      [] s = MemberTab(2) -> "mark"
      [] s = AdminTab(1) -> "alan"
      [] OTHER -> "alma"
ActorRole(s) == IF s[1] = "admin" THEN "admin" ELSE "user"
ActorUids == {ActorUid(s) : s \in Sessions}
ActorProfile(uid) ==
    [role |-> ActorRole(CHOOSE s \in Sessions : ActorUid(s) = uid)]

\* the stores are empty and nothing is shown or running
InitLending ==
    /\ books = <<>>
    /\ bookRequests = <<>>
    /\ now = 0
    /\ uview = [u \in Users |-> NoPage]
    /\ upc = [u \in Users |-> "idle"]
    /\ uarg = [u \in Users |-> NoArg]
    /\ utoast = [u \in Users |-> "none"]
    /\ aview = [a \in Admins |-> NoPage]
    /\ apc = [a \in Admins |-> "idle"]
    /\ aarg = [a \in Admins |-> NoArg]
    /\ atoast = [a \in Admins |-> "none"]
    /\ aqueue = [a \in Admins |-> <<>>]
    /\ deletedBooks = {}
    /\ started = 0
    /\ fpc = [s \in Sessions |-> "idle"]
    /\ farg = [s \in Sessions |-> NoForm]
    /\ ftoast = [s \in Sessions |-> NoNotice]
    /\ profileReads = [s \in Sessions |-> {}]
    /\ http = NoExchange
    /\ issued = {}
    /\ undo = [a \in Admins |-> NoUndo]

\* a configured deployment in which every session is signed in: the member
\* sessions as registered members and the admin sessions as registered admins
Init ==
    /\ InitLending
    /\ env = [apiKey |-> Str("key"), authDomain |-> Str("domain"),
              projectId |-> Str("project"), ADMIN_SECRET_CODE |-> Str("secret")]
    /\ accounts = ActorUids
    /\ users = [uid \in ActorUids |-> ActorProfile(uid)]
    /\ roleAtCreation = [uid \in ActorUids |-> ActorProfile(uid).role]
    /\ firebaseUser = [s \in Sessions |-> ActorUid(s)]
    /\ user = [s \in Sessions |-> UserData(ActorUid(s), ActorProfile(ActorUid(s)))]

\* a deployment with any settings, before anybody has registered
InitAccess ==
    /\ InitLending
    /\ env \in Envs
    /\ accounts = {}
    /\ users = [uid \in {} |-> [role |-> "none"]]
    /\ roleAtCreation = [uid \in {} |-> "none"]
    /\ firebaseUser = [s \in Sessions |-> "null"]
    /\ user = [s \in Sessions |-> NoUser]

\* one more page load or handler run starts
Begin ==
    /\ started < MaxStarts
    /\ started' = started + 1

\* the clock advances
Tick ==
    /\ now < MaxClock
    /\ now' = now + 1
    /\ UNCHANGED <<books, bookRequests, uview, upc, uarg, utoast, aview, apc, aarg, atoast, deletedBooks, aqueue, started>>
    /\ UNCHANGED <<accessVars, undo, issued>>

\* ======================================================= member sessions
\* BooksPage.fetchBooks
FetchCatalog(u, ok) ==
    /\ Begin
    /\ upc[u] = "idle"
    /\ IF ok
        THEN /\ uview' = [uview EXCEPT ![u] = [page |-> "catalog", books |-> BooksListing(books)]]
             /\ utoast' = [utoast EXCEPT ![u] = "none"]
        ELSE /\ uview' = [uview EXCEPT ![u] = [page |-> "catalog", books |-> EmptyListing]]
             /\ utoast' = [utoast EXCEPT ![u] = "Error"]
    /\ UNCHANGED <<books, bookRequests, now, upc, uarg, aview, apc, aarg, atoast, deletedBooks, aqueue>>
    /\ Call("store", ok)
    /\ UNCHANGED <<accessVars, undo>>

\* RequestBookPage.fetchBook: if (user) fetchBook() else router.push("/login")
FetchBook(u, b, ok) ==
    /\ Begin
    /\ upc[u] = "idle"
    /\ IF user[MemberTab(u)] = NoUser
        THEN /\ uview' = [uview EXCEPT ![u] = NoPage]
             /\ utoast' = [utoast EXCEPT ![u] = "none"]
             /\ UNCHANGED issued
        ELSE /\ Call("store", ok)
             /\ IF ~ok
                 THEN /\ uview' = [uview EXCEPT ![u] = NoPage]
                      /\ utoast' = [utoast EXCEPT ![u] = "Error"]
                 ELSE IF b \in DOMAIN books
                 THEN /\ uview' = [uview EXCEPT ![u] = [page |-> "request", book |-> [id |-> b, status |-> books[b].status]]]
                      /\ utoast' = [utoast EXCEPT ![u] = "none"]
                 ELSE /\ uview' = [uview EXCEPT ![u] = NoPage]
                      /\ utoast' = [utoast EXCEPT ![u] = "Book not found"]
    /\ UNCHANGED <<books, bookRequests, now, upc, uarg, aview, apc, aarg, atoast, deletedBooks, aqueue>>
    /\ UNCHANGED <<accessVars, undo>>

\* disabled={book.status !== "available" || isSubmitting}
RequestButtonEnabled(u) ==
    /\ uview[u].page = "request"
    /\ uview[u].book.status = "available"
    /\ upc[u] = "idle"

\* the documents that creations in flight may still add
CreationsInFlight == Cardinality({u \in Users : upc[u] \in {"getUser", "addDoc"}})

\* handleRequestBook, up to the first await
handleRequestBook(u) ==
    /\ Begin
    /\ user[MemberTab(u)] # NoUser
    /\ RequestButtonEnabled(u)
    /\ Len(bookRequests) + CreationsInFlight < MaxRequests
    /\ upc' = [upc EXCEPT ![u] = "getUser"]
    /\ utoast' = [utoast EXCEPT ![u] = "none"]
    /\ UNCHANGED <<books, bookRequests, now, uview, uarg, aview, apc, aarg, atoast, deletedBooks, aqueue>>
    /\ UNCHANGED <<accessVars, undo, issued>>

\* the document handed to addDoc
NewRequest(bookId, userId, requestTime, dueTime) ==
    [bookId |-> bookId, userId |-> userId,
     requestDate |-> toISOString(requestTime),
     dueDate |-> toISOString(dueTime),
     status |-> "pending"]

\* (mutation of RequestFailed: there is no finally block, isSubmitting stays set)
RequestFailedStaysBusy(u) ==
    /\ utoast' = [utoast EXCEPT ![u] = "Request failed"]
    /\ UNCHANGED <<upc, uarg, uview>>

\* the catch and finally blocks of handleRequestBook
RequestFailed(u) ==
    /\ upc' = [upc EXCEPT ![u] = "idle"]
    /\ uarg' = [uarg EXCEPT ![u] = NoArg]
    /\ utoast' = [utoast EXCEPT ![u] = "Request failed"]
    /\ UNCHANGED uview

\* getDoc(users/uid) answers; dueDate and requestDate are two reads of the
\* clock, d ms apart
RequestGetUser(u, ok, d) ==
    /\ upc[u] = "getUser"
    /\ now + d <= MaxClock
    /\ ok => user[MemberTab(u)].uid \in DOMAIN users
    /\ IF ok
        THEN /\ now' = now + d
             /\ uarg' = [uarg EXCEPT ![u] =
                   [op |-> "request", ref |-> 0,
                    doc |-> NewRequest(uview[u].book.id, u, now + d, addDays(now, BORROW_DAYS))]]
             /\ upc' = [upc EXCEPT ![u] = "addDoc"]
             /\ UNCHANGED <<uview, utoast>>
        ELSE RequestFailed(u) /\ UNCHANGED now
    /\ UNCHANGED <<books, bookRequests, aview, apc, aarg, atoast, deletedBooks, aqueue, started>>
    /\ Call("store", ok)
    /\ UNCHANGED <<accessVars, undo>>

\* addDoc(bookRequests) answers with the reference of the new document
RequestAddDoc(u, ok) ==
    /\ upc[u] = "addDoc"
    /\ IF ok
        THEN /\ bookRequests' = Append(bookRequests, uarg[u].doc)
             /\ uarg' = [uarg EXCEPT ![u].ref = Len(bookRequests) + 1]
             /\ upc' = [upc EXCEPT ![u] = "updateBook"]
             /\ UNCHANGED <<uview, utoast>>
        ELSE RequestFailed(u) /\ UNCHANGED bookRequests
    /\ UNCHANGED <<books, now, aview, apc, aarg, atoast, deletedBooks, aqueue, started>>
    /\ Call("store", ok)
    /\ UNCHANGED <<accessVars, undo>>

\* (mutation of RequestBookPatch: the book is left available)
RequestBookPatchAvailable == [status |-> "available"]

\* the book write of handleRequestBook
RequestBookPatch == [status |-> "unavailable"]

\* updateDoc(books/id) answers; on success the page is left for the dashboard
RequestUpdateBook(u, ok) ==
    /\ upc[u] = "updateBook"
    /\ IF ok
        THEN /\ books' = [books EXCEPT ![uview[u].book.id] = updateDoc(@, RequestBookPatch)]
             /\ upc' = [upc EXCEPT ![u] = "idle"]
             /\ uarg' = [uarg EXCEPT ![u] = NoArg]
             /\ utoast' = [utoast EXCEPT ![u] = "Request submitted"]
             /\ uview' = [uview EXCEPT ![u] = NoPage]
             /\ undo' = [x \in Admins |-> NoUndo]
        ELSE RequestFailed(u) /\ UNCHANGED <<books, undo>>
    /\ UNCHANGED <<bookRequests, now, aview, apc, aarg, atoast, deletedBooks, aqueue, started>>
    /\ Call("store", ok)
    /\ UNCHANGED accessVars

\* ======================================================== admin sessions
\* AddBookPage.onSubmit: the form's status is "available" or "unavailable"
AddBook(a, status, ok) ==
    /\ Begin
    /\ apc[a] = "idle"
    /\ status \in {"available", "unavailable"}
    /\ Len(books) < MaxBooks
    /\ IF ok
        THEN /\ books' = Append(books, [status |-> status])
             /\ atoast' = [atoast EXCEPT ![a] = "Book added"]
             /\ aview' = [aview EXCEPT ![a] = NoPage]
        ELSE /\ atoast' = [atoast EXCEPT ![a] = "Error"]
             /\ UNCHANGED <<books, aview>>
    /\ UNCHANGED <<bookRequests, now, uview, upc, uarg, utoast, apc, aarg, deletedBooks, aqueue>>
    /\ Call("store", ok)
    /\ UNCHANGED <<accessVars, undo>>

\* AdminDashboard.fetchRequests: if (!user) return; a failure is logged and the
\* list stays empty
FetchRequests(a, ok) ==
    /\ Begin
    /\ apc[a] = "idle"
    /\ IF user[AdminTab(a)] = NoUser
        THEN /\ aview' = [aview EXCEPT ![a] = [page |-> "dashboard", requests |-> <<>>]]
             /\ UNCHANGED issued
        ELSE /\ Call("store", ok)
             /\ aview' = [aview EXCEPT ![a] =
                            [page |-> "dashboard", requests |-> IF ok THEN bookRequests ELSE <<>>]]
    /\ atoast' = [atoast EXCEPT ![a] = "none"]
    /\ UNCHANGED <<books, bookRequests, now, uview, upc, uarg, utoast, apc, aarg, deletedBooks, aqueue>>
    /\ UNCHANGED <<accessVars, undo>>

\* AdminBooksPage.fetchBooks
FetchBooks(a, ok) ==
    /\ Begin
    /\ apc[a] = "idle"
    /\ IF ok
        THEN /\ aview' = [aview EXCEPT ![a] = [page |-> "books", books |-> BooksListing(books)]]
             /\ atoast' = [atoast EXCEPT ![a] = "none"]
        ELSE /\ aview' = [aview EXCEPT ![a] = [page |-> "books", books |-> EmptyListing]]
             /\ atoast' = [atoast EXCEPT ![a] = "Error"]
    /\ UNCHANGED <<books, bookRequests, now, uview, upc, uarg, utoast, apc, aarg, deletedBooks, aqueue>>
    /\ Call("store", ok)
    /\ UNCHANGED <<accessVars, undo>>

\* the request cards of a dashboard tab: requests.filter(req => req.status === status)
RequestsShown(a, status) ==
    IF aview[a].page = "dashboard"
    THEN {r \in DOMAIN aview[a].requests : aview[a].requests[r].status = status}
    ELSE {}

\* (mutation of ApproveRequestPatch: the due date is the approval time itself)
ApproveRequestPatchNoAddDays(t) == [status |-> "approved", dueDate |-> toISOString(t)]

\* (mutation of RejectBookPatch: the book is not released)
RejectBookPatchUnavailable == [status |-> "unavailable"]

\* (mutation of ReturnedRequestPatch: the request stays approved)
ReturnedRequestPatchApproved == [status |-> "approved"]

\* (mutation of ApproveRequestPatch: the approval stamps the request date too)
ApproveRequestPatchRestamps(t) ==
    [status |-> "approved", dueDate |-> toISOString(addDays(t, BORROW_DAYS)),
     requestDate |-> toISOString(t)]

\* the request write and the book write of each dashboard handler
ApproveRequestPatch(t) ==
    [status |-> "approved", dueDate |-> toISOString(addDays(t, BORROW_DAYS))]
ApproveBookPatch == [status |-> "unavailable"]
RejectRequestPatch == [status |-> "rejected"]
RejectBookPatch == [status |-> "available"]
ReturnedRequestPatch == [status |-> "returned"]
ReturnedBookPatch == [status |-> "available"]

\* a dashboard handler up to its first await: if (isProcessing) return; setIsProcessing(true)
StartDashboardHandler(a, op, r, requestPatch, bookPatch, notice) ==
    /\ Begin
    /\ apc[a] = "idle"
    /\ apc' = [apc EXCEPT ![a] = "updateRequest"]
    /\ aarg' = [aarg EXCEPT ![a] =
                 [op |-> op, requestId |-> r, bookId |-> aview[a].requests[r].bookId,
                  requestPatch |-> requestPatch, bookPatch |-> bookPatch, notice |-> notice]]
    /\ atoast' = [atoast EXCEPT ![a] = "none"]
    /\ UNCHANGED <<books, bookRequests, now, uview, upc, uarg, utoast, aview, deletedBooks, aqueue>>
    /\ UNCHANGED <<accessVars, undo, issued>>

\* handleApproveRequest, from the Approve button of a pending card
handleApproveRequest(a, r) ==
    /\ r \in RequestsShown(a, "pending")
    /\ StartDashboardHandler(a, "approve", r, ApproveRequestPatch(now), ApproveBookPatch,
                             "Request approved")

\* handleRejectRequest, from the Reject button of a pending card
handleRejectRequest(a, r) ==
    /\ r \in RequestsShown(a, "pending")
    /\ StartDashboardHandler(a, "reject", r, RejectRequestPatch, RejectBookPatch,
                             "Request rejected")

\* handleMarkReturned, from the button of an approved card
handleMarkReturned(a, r) ==
    /\ r \in RequestsShown(a, "approved")
    /\ StartDashboardHandler(a, "return", r, ReturnedRequestPatch, ReturnedBookPatch,
                             "Book returned")

\* the catch and finally blocks of an admin handler
AdminFailed(a) ==
    /\ apc' = [apc EXCEPT ![a] = "idle"]
    /\ aarg' = [aarg EXCEPT ![a] = NoArg]
    /\ atoast' = [atoast EXCEPT ![a] = "Error"]
    /\ UNCHANGED aview

\* (mutation of DashboardUpdateRequest: a failed request write is ignored and
\* the handler goes on to the book write)
DashboardUpdateRequestGoesOn(a, ok) ==
    /\ apc[a] = "updateRequest"
    /\ bookRequests' = IF ok
                       THEN [bookRequests EXCEPT ![aarg[a].requestId] =
                                updateDoc(@, aarg[a].requestPatch)]
                       ELSE bookRequests
    /\ apc' = [apc EXCEPT ![a] = "updateBook"]
    /\ atoast' = [atoast EXCEPT ![a] = IF ok THEN atoast[a] ELSE "Error"]
    /\ UNCHANGED <<aview, aarg>>
    /\ UNCHANGED <<books, now, uview, upc, uarg, utoast, deletedBooks, aqueue, started>>
    /\ Call("store", ok)
    /\ UNCHANGED <<accessVars, undo>>

\* updateDoc(bookRequests/requestId) answers
DashboardUpdateRequest(a, ok) ==
    /\ apc[a] = "updateRequest"
    /\ IF ok
        THEN /\ bookRequests' = [bookRequests EXCEPT ![aarg[a].requestId] =
                                    updateDoc(@, aarg[a].requestPatch)]
             /\ apc' = [apc EXCEPT ![a] = "updateBook"]
             /\ UNCHANGED <<aview, aarg, atoast>>
        ELSE AdminFailed(a) /\ UNCHANGED bookRequests
    /\ UNCHANGED <<books, now, uview, upc, uarg, utoast, deletedBooks, aqueue, started>>
    /\ Call("store", ok)
    /\ UNCHANGED <<accessVars, undo>>

\* setRequests(requests.map(...)): the local copy of the request after success;
\* approve stamps the copy with a further read of the clock
LocalRequestPatch(op, patch, t) ==
    IF op = "approve" THEN ApproveRequestPatch(t) ELSE patch

\* updateDoc(books/bookId) answers
DashboardUpdateBook(a, ok) ==
    /\ apc[a] = "updateBook"
    /\ aarg[a].op \in {"approve", "reject", "return"}
    /\ IF ok
        THEN /\ books' = [books EXCEPT ![aarg[a].bookId] = updateDoc(@, aarg[a].bookPatch)]
             /\ aview' = [aview EXCEPT ![a].requests[aarg[a].requestId] =
                            updateDoc(@, LocalRequestPatch(aarg[a].op, aarg[a].requestPatch, now))]
             /\ atoast' = [atoast EXCEPT ![a] = aarg[a].notice]
             /\ apc' = [apc EXCEPT ![a] = "idle"]
             /\ aarg' = [aarg EXCEPT ![a] = NoArg]
             /\ undo' = [x \in Admins |-> NoUndo]
        ELSE AdminFailed(a) /\ UNCHANGED <<books, undo>>
    /\ UNCHANGED <<bookRequests, now, uview, upc, uarg, utoast, deletedBooks, aqueue, started>>
    /\ Call("store", ok)
    /\ UNCHANGED accessVars

\* the book cards of the admin books page
BooksShown(a) == IF aview[a].page = "books" THEN DOMAIN aview[a].books ELSE {}

\* const newStatus = currentStatus === "available" ? "unavailable" : "available"
ToggledStatus(currentStatus) ==
    IF currentStatus = "available" THEN "unavailable" ELSE "available"

\* a handler of the books page up to its await. The page has no busy flag and
\* its buttons are never disabled: a handler also starts while earlier writes
\* of the page are outstanding. Each run keeps the books of the render it was
\* clicked in.
StartBooksPageHandler(a, op, b, bookPatch, notice) ==
    LET write == [op |-> op, bookId |-> b, bookPatch |-> bookPatch, notice |-> notice,
                  books |-> aview[a].books]
    IN  /\ Begin
        /\ b \in BooksShown(a)
        /\ \/ /\ apc[a] = "idle"
              /\ apc' = [apc EXCEPT ![a] = "updateBook"]
              /\ aarg' = [aarg EXCEPT ![a] = write]
              /\ UNCHANGED aqueue
           \/ /\ apc[a] = "updateBook"
              /\ aarg[a].op \in {"toggle", "delete"}
              /\ Len(aqueue[a]) < MaxQueued
              /\ aqueue' = [aqueue EXCEPT ![a] = Append(@, write)]
              /\ UNCHANGED <<apc, aarg>>
        /\ atoast' = [atoast EXCEPT ![a] = "none"]
        /\ UNCHANGED <<books, bookRequests, now, uview, upc, uarg, utoast, aview, deletedBooks>>
        /\ UNCHANGED <<accessVars, undo, issued>>

\* handleToggleStatus(book.id, book.status), up to its await
handleToggleStatus(a, b) ==
    /\ b \in BooksShown(a)
    /\ StartBooksPageHandler(a, "toggle", b,
                             [status |-> ToggledStatus(aview[a].books[b].status)],
                             "Status updated")

\* the book write of handleDeleteBook
DeleteBookPatch == [status |-> "deleted"]

\* handleDeleteBook(book.id), up to its await
handleDeleteBook(a, b) ==
    /\ b \in BooksShown(a)
    /\ StartBooksPageHandler(a, "delete", b, DeleteBookPatch, "Book deleted")

\* setBooks(...) after the write: toggle maps the card, delete filters it out
LocalBooksAfter(op, listing, b, patch) ==
    IF op = "delete"
    THEN [x \in DOMAIN listing \ {b} |-> listing[x]]
    ELSE [x \in DOMAIN listing |-> IF x = b THEN updateDoc(listing[x], patch) ELSE listing[x]]

\* the history of toggles after one more has landed on book b
ToggleLanded(before, b, shown, stored) ==
    [book |-> b,
     status |-> IF shown = stored THEN stored ELSE "stale",
     toggles |-> IF before.book = b THEN before.toggles + 1 ELSE 1]

\* the oldest outstanding write of the books page has answered: the next one
\* is the oldest now
NextBooksPageWrite(a) ==
    IF aqueue[a] = <<>>
    THEN /\ apc' = [apc EXCEPT ![a] = "idle"]
         /\ aarg' = [aarg EXCEPT ![a] = NoArg]
         /\ UNCHANGED aqueue
    ELSE /\ aarg' = [aarg EXCEPT ![a] = Head(aqueue[a])]
         /\ aqueue' = [aqueue EXCEPT ![a] = Tail(@)]
         /\ UNCHANGED apc

\* updateDoc(books/bookId) of handleToggleStatus or handleDeleteBook answers;
\* setBooks is given the books of the handler's own render
BooksPageUpdateBook(a, ok) ==
    /\ apc[a] = "updateBook"
    /\ aarg[a].op \in {"toggle", "delete"}
    /\ IF ok
        THEN /\ books' = [books EXCEPT ![aarg[a].bookId] = updateDoc(@, aarg[a].bookPatch)]
             /\ aview' = [aview EXCEPT ![a].books =
                            LocalBooksAfter(aarg[a].op, aarg[a].books, aarg[a].bookId,
                                            aarg[a].bookPatch)]
             /\ deletedBooks' = IF aarg[a].op = "delete"
                                THEN deletedBooks \cup {aarg[a].bookId} ELSE deletedBooks
             /\ undo' = [x \in Admins |->
                            IF x = a /\ aarg[a].op = "toggle"
                            THEN ToggleLanded(undo[a], aarg[a].bookId,
                                              aarg[a].books[aarg[a].bookId].status,
                                              books[aarg[a].bookId].status)
                            ELSE NoUndo]
             /\ atoast' = [atoast EXCEPT ![a] = aarg[a].notice]
        ELSE /\ atoast' = [atoast EXCEPT ![a] = "Error"]
             /\ UNCHANGED <<aview, books, deletedBooks, undo>>
    /\ NextBooksPageWrite(a)
    /\ UNCHANGED <<bookRequests, now, uview, upc, uarg, utoast, started>>
    /\ Call("store", ok)
    /\ UNCHANGED accessVars

\* EditBookPage.fetchBook: form.reset({..., status: bookData.status})
FetchEditBook(a, b, ok) ==
    /\ Begin
    /\ apc[a] = "idle"
    /\ IF ~ok
        THEN /\ aview' = [aview EXCEPT ![a] = NoPage]
             /\ atoast' = [atoast EXCEPT ![a] = "Error"]
        ELSE IF b \in DOMAIN books
        THEN /\ aview' = [aview EXCEPT ![a] =
                            [page |-> "edit", book |-> [id |-> b, status |-> books[b].status]]]
             /\ atoast' = [atoast EXCEPT ![a] = "none"]
        ELSE /\ aview' = [aview EXCEPT ![a] = NoPage]
             /\ atoast' = [atoast EXCEPT ![a] = "Book not found"]
    /\ UNCHANGED <<books, bookRequests, now, uview, upc, uarg, utoast, apc, aarg, deletedBooks, aqueue>>
    /\ Call("store", ok)
    /\ UNCHANGED <<accessVars, undo>>

\* status: z.enum(["available", "unavailable"])
EditStatuses == {"available", "unavailable"}

\* EditBookPage.onSubmit(values), up to its await; values.status is the status
\* the form was loaded with unless the admin selected another
EditSubmit(a, status) ==
    /\ Begin
    /\ apc[a] = "idle"
    /\ aview[a].page = "edit"
    /\ status \in EditStatuses
    /\ apc' = [apc EXCEPT ![a] = "editBook"]
    /\ aarg' = [aarg EXCEPT ![a] =
                 [op |-> "edit", bookId |-> aview[a].book.id,
                  bookPatch |-> [status |-> status],
                  statusTouched |-> (status # aview[a].book.status),
                  notice |-> "Book updated"]]
    /\ atoast' = [atoast EXCEPT ![a] = "none"]
    /\ UNCHANGED <<books, bookRequests, now, uview, upc, uarg, utoast, aview, deletedBooks, aqueue>>
    /\ UNCHANGED <<accessVars, undo, issued>>

\* updateDoc(books/bookId, {..., status: values.status, ...}) of the edit page
\* answers; on success the page is left for the books page
EditUpdateBook(a, ok) ==
    /\ apc[a] = "editBook"
    /\ IF ok
        THEN /\ books' = [books EXCEPT ![aarg[a].bookId] = updateDoc(@, aarg[a].bookPatch)]
             /\ aview' = [aview EXCEPT ![a] = NoPage]
             /\ atoast' = [atoast EXCEPT ![a] = aarg[a].notice]
             /\ apc' = [apc EXCEPT ![a] = "idle"]
             /\ aarg' = [aarg EXCEPT ![a] = NoArg]
             /\ undo' = [x \in Admins |-> NoUndo]
        ELSE AdminFailed(a) /\ UNCHANGED <<books, undo>>
    /\ UNCHANGED <<bookRequests, now, uview, upc, uarg, utoast, deletedBooks, aqueue, started>>
    /\ Call("store", ok)
    /\ UNCHANGED accessVars

\* ======================================================== access control
\* the body JSON.stringify({adminCode}) sends: an undefined field is left out
EmptyBody == [f \in {} |-> Undefined]
JSONBody(adminCode) ==
    IF adminCode = Undefined THEN EmptyBody ELSE [adminCode |-> adminCode]

\* POST /api/verify-admin-code: const {adminCode} = await req.json();
\* adminCode === process.env.ADMIN_SECRET_CODE
VerifyAdminCodePOST(body) ==
    LET adminCode == IF "adminCode" \in DOMAIN body THEN body.adminCode ELSE Undefined
    IN  [valid |-> adminCode = env.ADMIN_SECRET_CODE]

\* the admin codes typed into a form (the field's default is the empty string)
FormCodes == {Str(""), Str("secret")}

\* the first remote call of a form after the admin code was settled
FirstCall(form) == IF form = "register" THEN "createUser" ELSE "signIn"

\* onSubmit of the register and the login form, up to its first await
onSubmit(s, form, email, role, adminCode) ==
    /\ Begin
    /\ fpc[s] = "idle"
    /\ IF ~isFirebaseConfigured
        THEN /\ ftoast' = [ftoast EXCEPT ![s] = <<form, "Firebase not configured">>]
             /\ UNCHANGED <<fpc, farg>>
        ELSE /\ farg' = [farg EXCEPT ![s] =
                          [form |-> form, email |-> email, role |-> role,
                           adminCode |-> adminCode]]
             /\ fpc' = [fpc EXCEPT ![s] = IF role = "admin" THEN "verify" ELSE FirstCall(form)]
             /\ ftoast' = [ftoast EXCEPT ![s] = <<form, "none">>]
    /\ UNCHANGED <<env, accounts, users, firebaseUser, profileReads, user, http, roleAtCreation>>
    /\ UNCHANGED <<lendingVars, issued>>

\* RegisterPage.onSubmit
RegisterSubmit(s, email, role, adminCode) == onSubmit(s, "register", email, role, adminCode)

\* LoginPage.onSubmit
LoginSubmit(s, email, role, adminCode) == onSubmit(s, "login", email, role, adminCode)

\* a form's handler ends with a notice: a return, or the catch block
FormEnds(s, notice) ==
    /\ fpc' = [fpc EXCEPT ![s] = "idle"]
    /\ farg' = [farg EXCEPT ![s] = NoForm]
    /\ ftoast' = [ftoast EXCEPT ![s] = <<farg[s].form, notice>>]

\* (mutation of VerifyAdminCode: the answer of the endpoint is not looked at)
VerifyAdminCodeUnchecked(s, ok) ==
    /\ fpc[s] = "verify"
    /\ fpc' = [fpc EXCEPT ![s] = FirstCall(farg[s].form)]
    /\ UNCHANGED <<farg, ftoast>>
    /\ UNCHANGED <<env, accounts, users, firebaseUser, profileReads, user, http, roleAtCreation>>
    /\ UNCHANGED <<lendingVars, issued, started>>

\* fetch("/api/verify-admin-code") answers: if (!data.valid) { toast; return }
VerifyAdminCode(s, ok) ==
    /\ fpc[s] = "verify"
    /\ IF ~ok
        THEN FormEnds(s, IF farg[s].form = "register" THEN "Registration failed"
                         ELSE "Login failed")
        ELSE IF ~VerifyAdminCodePOST(JSONBody(farg[s].adminCode)).valid
        THEN FormEnds(s, "Invalid admin code")
        ELSE /\ fpc' = [fpc EXCEPT ![s] = FirstCall(farg[s].form)]
             /\ UNCHANGED <<farg, ftoast>>
    /\ UNCHANGED <<env, accounts, users, firebaseUser, profileReads, user, http, roleAtCreation>>
    /\ UNCHANGED <<lendingVars, issued, started>>

\* the gateway signs uid in; onAuthStateChanged calls the listener if the
\* signed-in uid changed, and the listener starts its getDoc of the profile
SignedIn(s, uid) ==
    /\ firebaseUser' = [firebaseUser EXCEPT ![s] = uid]
    /\ profileReads' = [profileReads EXCEPT ![s] =
                           IF firebaseUser[s] = uid THEN @ ELSE @ \cup {uid}]

\* (mutation of EmailInUse: the gateway lets an email register again)
EmailInUseNever(email) == FALSE

\* auth/email-already-in-use
EmailInUse(email) == email \in accounts

\* createUserWithEmailAndPassword answers; the new account is signed in
CreateUser(s, ok) ==
    /\ fpc[s] = "createUser"
    /\ Call("auth", ok)
    /\ ok => ~EmailInUse(farg[s].email)
    /\ IF ok
        THEN /\ accounts' = accounts \cup {farg[s].email}
             /\ SignedIn(s, farg[s].email)
             /\ fpc' = [fpc EXCEPT ![s] = "setDoc"]
             /\ UNCHANGED <<farg, ftoast>>
        ELSE /\ FormEnds(s, "Registration failed")
             /\ UNCHANGED <<accounts, firebaseUser, profileReads>>
    /\ UNCHANGED <<env, users, user, http, roleAtCreation>>
    /\ UNCHANGED <<lendingVars, started>>

\* setDoc(doc(db, "users", uid), {..., role: values.role}) answers
SetUserDoc(s, ok) ==
    /\ fpc[s] = "setDoc"
    /\ Call("store", ok)
    /\ IF ok
        THEN LET uid == farg[s].email
             IN  /\ users' = [x \in DOMAIN users \cup {uid} |->
                                IF x = uid THEN [role |-> farg[s].role] ELSE users[x]]
                 /\ roleAtCreation' =
                        [x \in DOMAIN roleAtCreation \cup {uid} |->
                            IF x \in DOMAIN roleAtCreation THEN roleAtCreation[x]
                            ELSE farg[s].role]
                 /\ FormEnds(s, "Registration successful!")
        ELSE /\ FormEnds(s, "Registration failed")
             /\ UNCHANGED <<users, roleAtCreation>>
    /\ UNCHANGED <<env, accounts, firebaseUser, profileReads, user, http>>
    /\ UNCHANGED <<lendingVars, started>>

\* signInWithEmailAndPassword answers
SignIn(s, ok) ==
    /\ fpc[s] = "signIn"
    /\ Call("auth", ok)
    /\ ok => farg[s].email \in accounts
    /\ IF ok
        THEN /\ SignedIn(s, farg[s].email)
             /\ fpc' = [fpc EXCEPT ![s] = "getDoc"]
             /\ UNCHANGED <<farg, ftoast>>
        ELSE /\ FormEnds(s, "Login failed")
             /\ UNCHANGED <<firebaseUser, profileReads>>
    /\ UNCHANGED <<env, accounts, users, user, http, roleAtCreation>>
    /\ UNCHANGED <<lendingVars, started>>

\* (mutation of RoleMatches: the stored role is not compared)
RoleMatchesAlways(profile, role) == TRUE

\* userData.role !== values.role
RoleMatches(profile, role) == profile.role = role

\* getDoc(doc(db, "users", uid)) of the login form answers
GetUserDoc(s, ok) ==
    /\ fpc[s] = "getDoc"
    /\ Call("store", ok)
    /\ IF ~ok \/ farg[s].email \notin DOMAIN users
        THEN FormEnds(s, "Login failed")
        ELSE IF ~RoleMatches(users[farg[s].email], farg[s].role)
        THEN FormEnds(s, "Invalid role")
        ELSE FormEnds(s, "Login successful!")
    /\ UNCHANGED <<env, accounts, users, firebaseUser, profileReads, user, http, roleAtCreation>>
    /\ UNCHANGED <<lendingVars, started>>

\* the listener of onAuthStateChanged after its await: the getDoc of uid's
\* profile answers and setUser is called with what it read
AuthStateChanged(s, uid, ok) ==
    /\ uid \in profileReads[s]
    /\ profileReads' = [profileReads EXCEPT ![s] = @ \ {uid}]
    /\ Call("store", ok)
    /\ user' = [user EXCEPT ![s] =
                  IF ok /\ uid \in DOMAIN users THEN UserData(uid, users[uid]) ELSE NoUser]
    /\ UNCHANGED <<env, accounts, users, firebaseUser, fpc, farg, ftoast, http, roleAtCreation>>
    /\ UNCHANGED <<lendingVars, started>>

\* the session's pages are idle
TabIdle(s) == IF s[1] = "admin" THEN apc[s[2]] = "idle" ELSE upc[s[2]] = "idle"

\* logout of the auth context, from the menu of a signed-in actor:
\* if (!firebaseReady) return; await signOut(auth); a failure is logged
logout(s, ok) ==
    /\ Begin
    /\ user[s] # NoUser
    /\ fpc[s] = "idle"
    /\ TabIdle(s)
    /\ isFirebaseConfigured
    /\ Call("auth", ok)
    /\ IF ok
        THEN /\ firebaseUser' = [firebaseUser EXCEPT ![s] = "null"]
             /\ user' = [user EXCEPT ![s] = IF firebaseUser[s] = "null" THEN @ ELSE NoUser]
        ELSE UNCHANGED <<firebaseUser, user>>
    /\ ftoast' = [ftoast EXCEPT ![s] = <<"menu", "Logged out">>]
    /\ IF s[1] = "admin"
        THEN aview' = [aview EXCEPT ![s[2]] = NoPage] /\ UNCHANGED uview
        ELSE uview' = [uview EXCEPT ![s[2]] = NoPage] /\ UNCHANGED aview
    /\ UNCHANGED <<env, accounts, users, profileReads, fpc, farg, http, roleAtCreation>>
    /\ UNCHANGED <<books, bookRequests, now, upc, uarg, utoast, apc, aarg, atoast,
                   deletedBooks, aqueue, undo>>

\* -------------------------------------------------------- route handlers
\* the fields of an upload: formData.get answers null for an absent field
UploadForms ==
    [file : {Null, Obj("cover")}, fileName : {Null, Str(""), Str("cover.png")}]

\* the answers of ik.upload: the stored image's url, or a throw
ImageKitAnswers ==
    {[ok |-> TRUE, url |-> "https://ik.example/1"],
     [ok |-> TRUE, url |-> "https://ik.example/2"],
     [ok |-> FALSE, url |-> ""]}

\* (mutation of UploadPOST: the fields are checked after the upload)
UploadPOSTChecksLate(formData, ik) ==
    IF ~ik.ok
    THEN [status |-> 500, body |-> [error |-> "Image upload failed"], uploads |-> <<formData>>]
    ELSE IF ~Truthy(formData.file) \/ ~Truthy(formData.fileName)
    THEN [status |-> 400, body |-> [error |-> "Missing file or fileName"], uploads |-> <<formData>>]
    ELSE [status |-> 200, body |-> [url |-> ik.url], uploads |-> <<formData>>]

\* POST /api/upload: the answer, and the calls made to the image host
UploadPOST(formData, ik) ==
    IF ~Truthy(formData.file) \/ ~Truthy(formData.fileName)
    THEN [status |-> 400, body |-> [error |-> "Missing file or fileName"], uploads |-> <<>>]
    ELSE IF ik.ok
    THEN [status |-> 200, body |-> [url |-> ik.url], uploads |-> <<formData>>]
    ELSE [status |-> 500, body |-> [error |-> "Image upload failed"], uploads |-> <<formData>>]

\* a client posts to /api/upload
UploadRequest(formData, ik) ==
    /\ http' = [endpoint |-> "upload", formData |-> formData, ik |-> ik,
                res |-> UploadPOST(formData, ik)]
    /\ UNCHANGED <<env, accounts, users, firebaseUser, profileReads, user, fpc, farg, ftoast,
                   roleAtCreation>>
    /\ UNCHANGED <<lendingVars, issued, started>>

\* the bodies posted to /api/verify-admin-code
VerifyBodies == {EmptyBody} \cup {JSONBody(c) : c \in FormCodes \cup {Str("guess")}}

\* a client posts to /api/verify-admin-code
VerifyAdminCodeRequest(body) ==
    /\ http' = [endpoint |-> "verify-admin-code", body |-> body,
                res |-> VerifyAdminCodePOST(body)]
    /\ UNCHANGED <<env, accounts, users, firebaseUser, profileReads, user, fpc, farg, ftoast,
                   roleAtCreation>>
    /\ UNCHANGED <<lendingVars, issued, started>>

\* ------------------------------------------------------------------ next
\* the steps of creating a request, of the dashboard and of the add and edit
\* pages in the member sessions US and the admin sessions AS, with the remote
\* calls answering as in OKS (TRUE: success, FALSE: a throw) and the clock
\* advancing by one of DS between two reads of one handler
Workflow(US, AS, OKS, DS) ==
    \/ \E u \in US, b \in 1..MaxBooks, ok \in OKS : FetchBook(u, b, ok)
    \/ \E u \in US : handleRequestBook(u)
    \/ \E u \in US, ok \in OKS, d \in DS : RequestGetUser(u, ok, d)
    \/ \E u \in US, ok \in OKS : RequestAddDoc(u, ok)
    \/ \E u \in US, ok \in OKS : RequestUpdateBook(u, ok)
    \/ \E a \in AS, st \in {"available", "unavailable"}, ok \in OKS : AddBook(a, st, ok)
    \/ \E a \in AS, ok \in OKS : FetchRequests(a, ok)
    \/ \E a \in AS, r \in 1..MaxRequests : handleApproveRequest(a, r)
    \/ \E a \in AS, r \in 1..MaxRequests : handleRejectRequest(a, r)
    \/ \E a \in AS, r \in 1..MaxRequests : handleMarkReturned(a, r)
    \/ \E a \in AS, ok \in OKS : DashboardUpdateRequest(a, ok)
    \/ \E a \in AS, ok \in OKS : DashboardUpdateBook(a, ok)
    \/ \E a \in AS, b \in 1..MaxBooks, ok \in OKS : FetchEditBook(a, b, ok)
    \/ \E a \in AS, st \in EditStatuses : EditSubmit(a, st)
    \/ \E a \in AS, ok \in OKS : EditUpdateBook(a, ok)

\* the steps of the catalog and of the admin books page
Listings(US, AS, OKS) ==
    \/ \E u \in US, ok \in OKS : FetchCatalog(u, ok)
    \/ \E a \in AS, ok \in OKS : FetchBooks(a, ok)
    \/ \E a \in AS, b \in 1..MaxBooks : handleToggleStatus(a, b)
    \/ \E a \in AS, b \in 1..MaxBooks : handleDeleteBook(a, b)
    \/ \E a \in AS, ok \in OKS : BooksPageUpdateBook(a, ok)

\* the steps of the member sessions US and the admin sessions AS
Lending(US, AS, OKS, DS) == Workflow(US, AS, OKS, DS) \/ Listings(US, AS, OKS)

\* a step that starts a page load or a handler run is one of the first n starts
StartsWithin(n) == started' = started \/ started < n

\* one member session and one admin session; calls may fail and the clock runs;
\* the runs have at most MaxSoloStarts starts
Next == Tick \/ (Lending({1}, {1}, BOOLEAN, 0..MaxClock) /\ StartsWithin(MaxSoloStarts))

Spec == Init /\ [][Next]_vars

\* two member and two admin sessions racing; every call succeeds and the clock
\* stands still
NextRace == Lending(Users, Admins, {TRUE}, {0})

SpecRace == Init /\ [][NextRace]_vars

\* the steps of the register form in the sessions FS
Registration(FS, OKS) ==
    \/ \E s \in FS, e \in Emails, r \in {"user", "admin"}, c \in FormCodes :
            RegisterSubmit(s, e, r, c)
    \/ \E s \in FS, ok \in OKS : CreateUser(s, ok)
    \/ \E s \in FS, ok \in OKS : SetUserDoc(s, ok)

\* the steps of the login form in the sessions FS, for the accounts ES
Login(FS, ES, OKS) ==
    \/ \E s \in FS, e \in ES, r \in {"user", "admin"}, c \in FormCodes :
            LoginSubmit(s, e, r, c)
    \/ \E s \in FS, ok \in OKS : VerifyAdminCode(s, ok)
    \/ \E s \in FS, ok \in OKS : SignIn(s, ok)
    \/ \E s \in FS, ok \in OKS : GetUserDoc(s, ok)

\* the steps of the auth context and the menu in the sessions FS
AuthContext(FS, ES, OKS) ==
    \/ \E s \in FS, uid \in ES, ok \in OKS : AuthStateChanged(s, uid, ok)
    \/ \E s \in FS, ok \in OKS : logout(s, ok)

\* the steps of the login form, the auth context and the menu in the sessions
\* FS, for the accounts ES
SignInOut(FS, ES, OKS) == Login(FS, ES, OKS) \/ AuthContext(FS, ES, OKS)

\* the steps of the register and login forms, the auth context and the menu
\* in the sessions FS
Access(FS, OKS) == Registration(FS, OKS) \/ SignInOut(FS, Emails, OKS)

\* the answers of the store to the pages: it answers if there is a client
Answers == IF isFirebaseConfigured THEN {TRUE} ELSE {FALSE}

\* one browser in which an actor registers, logs in and out and opens the admin
\* pages, and the public catalog; the deployment has any settings
NextAccess ==
    \/ Access({AdminTab(1)}, BOOLEAN)
    \/ \E ok \in Answers : FetchCatalog(1, ok)
    \/ \E st \in {"available", "unavailable"}, ok \in Answers : AddBook(1, st, ok)
    \/ \E ok \in Answers : FetchRequests(1, ok)
    \/ \E ok \in Answers : FetchBooks(1, ok)
    \/ \E b \in 1..MaxBooks : handleToggleStatus(1, b)
    \/ \E ok \in Answers : BooksPageUpdateBook(1, ok)

SpecAccess == InitAccess /\ [][NextAccess]_vars

\* one browser, signed in as an admin, in which the login form is submitted
\* for the accounts of an admin and of a member and the menu signs out
NextSessions == SignInOut({AdminTab(1)}, {ActorUid(AdminTab(1)), ActorUid(MemberTab(1))}, BOOLEAN)

SpecSessions == Init /\ [][NextSessions]_vars

\* one browser in a deployment with any settings in which an actor registers,
\* logs in and out, and every remote call succeeds
NextEnrol == Access({AdminTab(1)}, {TRUE})

SpecEnrol == InitAccess /\ [][NextEnrol]_vars

\* one member session and one admin session, and the register and login forms
\* submitted in the member's browser; calls may fail and the clock stands still
NextHandlers ==
    \/ Workflow({1}, {1}, BOOLEAN, {0})
    \/ Registration({MemberTab(1)}, BOOLEAN)
    \/ Login({MemberTab(1)}, Emails, BOOLEAN)

SpecHandlers == Init /\ [][NextHandlers]_vars

\* the route handlers, posted to directly
NextEndpoints ==
    \/ \E body \in VerifyBodies : VerifyAdminCodeRequest(body)
    \/ \E formData \in UploadForms, ik \in ImageKitAnswers : UploadRequest(formData, ik)

SpecEndpoints == InitAccess /\ [][NextEndpoints]_vars

\* ================================================================ claims
\* the open (pending or approved) requests of book b
OpenRequests(b) ==
    {r \in DOMAIN bookRequests :
        /\ bookRequests[r].bookId = b
        /\ bookRequests[r].status \in {"pending", "approved"}}

\* no handler of any session is between two of its remote calls
AllIdle ==
    /\ \A u \in Users : upc[u] = "idle"
    /\ \A a \in Admins : apc[a] = "idle"

BorrowMs == BORROW_DAYS * MsPerDay

\* C1: whenever every workflow action that was started has completed, a book
\* whose stored status is "available" has no pending or approved request.
C1_AvailableBookHasNoOpenRequest ==
    AllIdle => \A b \in DOMAIN books :
                  books[b].status = "available" => OpenRequests(b) = {}

\* C2: in every reachable state a book has at most one pending or approved
\* request, however the create-request actions of the member sessions interleave.
C2_AtMostOneOpenRequestPerBook ==
    \A b \in DOMAIN books : Cardinality(OpenRequests(b)) <= 1

\* C3: a create-request whose two writes succeed adds exactly one request, which
\* is pending and carries the book of the page and the acting member, changes
\* no other request, and leaves the book unavailable.
C3_CreateRequestEffect ==
    [][\A u \in Users :
        /\ (upc[u] = "addDoc" /\ upc'[u] = "updateBook")
             => /\ Len(bookRequests') = Len(bookRequests) + 1
                /\ SubSeq(bookRequests', 1, Len(bookRequests)) = bookRequests
                /\ bookRequests'[Len(bookRequests')].status = "pending"
                /\ bookRequests'[Len(bookRequests')].bookId = uview[u].book.id
                /\ bookRequests'[Len(bookRequests')].userId = u
        /\ (upc[u] = "updateBook" /\ utoast'[u] = "Request submitted")
             => /\ bookRequests' = bookRequests
                /\ books'[uview[u].book.id].status = "unavailable"
                /\ \A b \in DOMAIN books \ {uview[u].book.id} : books'[b] = books[b]
      ]_vars

\* C3 witness: a member's request went through: the notice is shown, the
\* member's pending request is stored and its book is unavailable.
C3_Witness ==
    \E u \in Users, r \in DOMAIN bookRequests :
        /\ utoast[u] = "Request submitted"
        /\ bookRequests[r].userId = u
        /\ bookRequests[r].status = "pending"
        /\ books[bookRequests[r].bookId].status = "unavailable"

\* C4: every request as create-request wrote it (it is still pending) has a
\* dueDate exactly 15 days after its requestDate.
C4_DueDateIsRequestDatePlus15Days ==
    \A r \in DOMAIN bookRequests :
        bookRequests[r].status = "pending"
            => parseDate(bookRequests[r].dueDate)
                 = parseDate(bookRequests[r].requestDate) + BorrowMs

\* C5: approve stamps the due date 15 days after the time the handler runs;
\* its request write turns a pending request into an approved one carrying that
\* due date, and after its book write the book is unavailable.
C5_ApproveEffect ==
    [][\A a \in Admins :
        /\ (apc[a] = "idle" /\ apc'[a] = "updateRequest" /\ aarg'[a].op = "approve")
             => parseDate(aarg'[a].requestPatch.dueDate) = now + BorrowMs
        /\ (apc[a] = "updateRequest" /\ aarg[a].op = "approve" /\ apc'[a] = "updateBook"
              /\ bookRequests[aarg[a].requestId].status = "pending")
             => /\ bookRequests'[aarg[a].requestId].status = "approved"
                /\ bookRequests'[aarg[a].requestId].dueDate = aarg[a].requestPatch.dueDate
        /\ (apc[a] = "updateBook" /\ aarg[a].op = "approve"
              /\ atoast'[a] = "Request approved")
             => books'[aarg[a].bookId].status = "unavailable"
      ]_vars

\* C5 witness: an approval went through at a later time than the request was
\* made: the due date stamped at creation has been replaced.
C5_Witness ==
    \E a \in Admins, r \in DOMAIN bookRequests :
        /\ atoast[a] = "Request approved"
        /\ bookRequests[r].status = "approved"
        /\ parseDate(bookRequests[r].dueDate) = now + BorrowMs
        /\ parseDate(bookRequests[r].dueDate)
             > parseDate(bookRequests[r].requestDate) + BorrowMs
        /\ books[bookRequests[r].bookId].status = "unavailable"

\* C6: the request write of reject turns a pending request into a rejected one,
\* and after its book write the book is available.
C6_RejectEffect ==
    [][\A a \in Admins :
        /\ (apc[a] = "updateRequest" /\ aarg[a].op = "reject" /\ apc'[a] = "updateBook"
              /\ bookRequests[aarg[a].requestId].status = "pending")
             => bookRequests'[aarg[a].requestId].status = "rejected"
        /\ (apc[a] = "updateBook" /\ aarg[a].op = "reject"
              /\ atoast'[a] = "Request rejected")
             => books'[aarg[a].bookId].status = "available"
      ]_vars

\* C6 witness: a rejection went through.
C6_Witness ==
    \E a \in Admins, r \in DOMAIN bookRequests :
        /\ atoast[a] = "Request rejected"
        /\ bookRequests[r].status = "rejected"
        /\ books[bookRequests[r].bookId].status = "available"

\* C7: the request write of mark-returned turns an approved request into a
\* returned one, and after its book write the book is available.
C7_MarkReturnedEffect ==
    [][\A a \in Admins :
        /\ (apc[a] = "updateRequest" /\ aarg[a].op = "return" /\ apc'[a] = "updateBook"
              /\ bookRequests[aarg[a].requestId].status = "approved")
             => bookRequests'[aarg[a].requestId].status = "returned"
        /\ (apc[a] = "updateBook" /\ aarg[a].op = "return"
              /\ atoast'[a] = "Book returned")
             => books'[aarg[a].bookId].status = "available"
      ]_vars

\* C7 witness: a return went through.
C7_Witness ==
    \E a \in Admins, r \in DOMAIN bookRequests :
        /\ atoast[a] = "Book returned"
        /\ bookRequests[r].status = "returned"
        /\ books[bookRequests[r].bookId].status = "available"

\* C8: once a request is rejected or returned, no step changes its status.
C8_TerminalStatusNeverChanges ==
    [][\A r \in DOMAIN bookRequests :
        bookRequests[r].status \in {"rejected", "returned"}
            => bookRequests'[r].status = bookRequests[r].status
      ]_vars

\* C9: a request write of approve or reject lands only on a request stored as
\* pending and one of mark-returned only on a request stored as approved, so a
\* request's status only ever goes pending->approved, pending->rejected or
\* approved->returned.
C9_OnlyWorkflowTransitions ==
    [][/\ \A a \in Admins :
            (apc[a] = "updateRequest" /\ apc'[a] = "updateBook")
                => bookRequests[aarg[a].requestId].status
                     = IF aarg[a].op = "return" THEN "approved" ELSE "pending"
       /\ \A r \in DOMAIN bookRequests :
            bookRequests'[r].status # bookRequests[r].status
                => <<bookRequests[r].status, bookRequests'[r].status>>
                     \in {<<"pending", "approved">>, <<"pending", "rejected">>,
                          <<"approved", "returned">>}
      ]_vars

\* a step of session a that loads the admin books page
LoadsAdminBooks(a) ==
    apc[a] = "idle" /\ apc'[a] = "idle" /\ aview'[a] # aview[a] /\ aview'[a].page = "books"

\* a step of session u that loads the member catalog
LoadsCatalog(u) ==
    uview'[u] # uview[u] /\ uview'[u].page = "catalog"

\* a step in which the write of handleDeleteBook lands
DeleteLands(a) ==
    apc[a] = "updateBook" /\ aarg[a].op = "delete" /\ atoast'[a] = "Book deleted"

\* C10: the delete write sets the book's status to "deleted" and keeps the
\* record; a delete of a book that is already deleted changes nothing in the
\* stores; and a listing loaded after a book was deleted does not show it.
C10_SoftDelete ==
    [][/\ \A a \in Admins :
            DeleteLands(a)
                => /\ books'[aarg[a].bookId].status = "deleted"
                   /\ DOMAIN books' = DOMAIN books
                   /\ bookRequests' = bookRequests
                   /\ books[aarg[a].bookId].status = "deleted" => books' = books
       /\ \A a \in Admins : LoadsAdminBooks(a) => DOMAIN aview'[a].books \cap deletedBooks = {}
       /\ \A u \in Users : LoadsCatalog(u) => DOMAIN uview'[u].books \cap deletedBooks = {}
      ]_vars

\* C11: once a book's stored status is "deleted", no step changes it.
C11_DeleteIsPermanent ==
    [][\A b \in DOMAIN books :
        books[b].status = "deleted" => books'[b].status = "deleted"
      ]_vars

\* the verification endpoint accepts the admin code a form sends
Accepted(adminCode) == VerifyAdminCodePOST(JSONBody(adminCode)).valid

\* the step in which form `form` of session s gets the endpoint's answer
VerifyStep(s, form) ==
    fpc[s] = "verify" /\ farg[s].form = form /\ fpc'[s] # "verify"

\* C12: a registration as admin whose code the verification endpoint does not
\* accept ends at that answer with a rejection notice, no account or profile is
\* created and no operation is sent; no registration as admin gets to create an
\* account or a profile with a code that is not accepted.
C12_AdminRegistrationNeedsAcceptedCode ==
    [][\A s \in Sessions :
        /\ (VerifyStep(s, "register") /\ ~Accepted(farg[s].adminCode))
             => /\ fpc'[s] = "idle"
                /\ ftoast'[s] \in {<<"register", "Invalid admin code">>,
                                   <<"register", "Registration failed">>}
                /\ accounts' = accounts
                /\ users' = users
                /\ issued' = issued
        /\ (fpc[s] \in {"createUser", "setDoc"} /\ farg[s].role = "admin")
             => Accepted(farg[s].adminCode)
      ]_vars

\* C12 witness: a registration as admin was rejected for its code while the
\* deployment is configured, and neither an account nor a profile exists.
C12_Witness ==
    \E s \in Sessions :
        /\ ftoast[s] = <<"register", "Invalid admin code">>
        /\ isFirebaseConfigured
        /\ accounts = {}
        /\ DOMAIN users = {}

\* C13: a login as admin announces success (and goes to the admin dashboard)
\* only with an accepted admin code and a stored profile of role "admin"; with
\* a code that is not accepted the login ends at the endpoint's answer and no
\* sign-in is sent to the identity gateway.
C13_AdminLoginNeedsCodeAndRole ==
    [][\A s \in Sessions :
        /\ (fpc[s] = "getDoc" /\ farg[s].role = "admin"
              /\ ftoast'[s] = <<"login", "Login successful!">>)
             => /\ Accepted(farg[s].adminCode)
                /\ farg[s].email \in DOMAIN users
                /\ users[farg[s].email].role = "admin"
        /\ (VerifyStep(s, "login") /\ ~Accepted(farg[s].adminCode))
             => /\ fpc'[s] = "idle"
                /\ firebaseUser' = firebaseUser
                /\ issued' = issued
        /\ (fpc[s] \in {"signIn", "getDoc"} /\ farg[s].role = "admin")
             => Accepted(farg[s].adminCode)
      ]_vars

\* C13 witness: a login as admin succeeded for an actor whose profile is admin.
C13_Witness ==
    \E s \in Sessions :
        /\ ftoast[s] = <<"login", "Login successful!">>
        /\ firebaseUser[s] \in DOMAIN users
        /\ users[firebaseUser[s]].role = "admin"

\* the actor of the session is authenticated with a stored profile of role admin
IsAdmin(s) == user[s] # NoUser /\ user[s].role = "admin"

\* a step of session a that loads the request dashboard
LoadsDashboard(a) ==
    apc[a] = "idle" /\ apc'[a] = "idle" /\ aview'[a] # aview[a]
        /\ aview'[a].page = "dashboard"

\* C14: in a configured deployment a session is shown the request dashboard or
\* the book management view loaded from the store, or starts one of their
\* actions, only if its actor is authenticated with role "admin".
C14_AdminViewsNeedAdminRole ==
    [][\A a \in Admins :
        (\/ (LoadsDashboard(a) \/ LoadsAdminBooks(a))
                /\ isFirebaseConfigured /\ atoast'[a] # "Error"
         \/ (apc[a] = "idle" /\ apc'[a] # "idle"))
            => IsAdmin(AdminTab(a))
      ]_vars

ToggleLands(a) ==
    apc[a] = "updateBook" /\ aarg[a].op = "toggle" /\ atoast'[a] = "Status updated"

\* the step in which a handler of the books page of session a starts
BooksPageStarts(a) ==
    \/ apc[a] = "idle" /\ apc'[a] = "updateBook"
    \/ Len(aqueue'[a]) > Len(aqueue[a])

\* the write that the handler starting in this step is about to issue
StartedWrite(a) ==
    IF Len(aqueue'[a]) > Len(aqueue[a]) THEN aqueue'[a][Len(aqueue'[a])] ELSE aarg'[a]

\* C16: a toggle writes "unavailable" if the session's page shows the book as
\* "available" and "available" otherwise, never "deleted"; its write changes no
\* request; and the second of two toggles landed in a row by a session, with no
\* other write to a book since the page showed the stored status, stores the
\* status the book had before the first.
C16_ToggleFlips ==
    [][\A a \in Admins :
        /\ (BooksPageStarts(a) /\ StartedWrite(a).op = "toggle")
             => /\ StartedWrite(a).bookPatch.status
                     = IF aview[a].books[StartedWrite(a).bookId].status = "available"
                       THEN "unavailable" ELSE "available"
                /\ StartedWrite(a).bookPatch.status # "deleted"
        /\ ToggleLands(a)
             => /\ bookRequests' = bookRequests
                /\ books'[aarg[a].bookId].status = aarg[a].bookPatch.status
                /\ books'[aarg[a].bookId].status # "deleted"
                /\ (undo[a].book = aarg[a].bookId /\ undo[a].status # "stale")
                      => books'[aarg[a].bookId].status = undo[a].status
      ]_vars

\* C17: every stored profile has the role it was created with.
C17_RoleNeverChanges ==
    \A uid \in DOMAIN users : users[uid].role = roleAtCreation[uid]

\* C17 witness: a profile is stored and a later registration has been turned
\* down by the gateway or the store.
C17_Witness ==
    \E s \in Sessions :
        /\ DOMAIN users # {}
        /\ ftoast[s] = <<"register", "Registration failed">>

\* the readiness predicate is false: the apiKey is missing or the string
\* "undefined", or the authDomain or the projectId is missing
NotReady ==
    \/ env.apiKey \in {Undefined, Str(""), Str("undefined")}
    \/ env.authDomain \in {Undefined, Str("")}
    \/ env.projectId \in {Undefined, Str("")}

\* C18: while the readiness predicate is false no operation is sent to the
\* identity gateway or the store, no form's handler gets past its first check,
\* and no session is signed in or shows stored data.
C18_NotReadyNoOperation ==
    NotReady
        => /\ issued = {}
           /\ \A s \in Sessions : fpc[s] = "idle" /\ firebaseUser[s] = "null"
           /\ books = <<>> /\ accounts = {} /\ DOMAIN users = {}

\* C18 witness: without readiness a form was submitted and turned away, and the
\* catalog was opened.
C18_Witness ==
    /\ NotReady
    /\ \E s \in Sessions : ftoast[s] = <<"login", "Firebase not configured">>
    /\ uview[1].page = "catalog"

\* a field of an upload is missing: absent, or empty
Missing(v) == v = Null \/ v = Str("") \/ v = Undefined

\* C19: the upload endpoint answers 400 without calling the image host if file
\* or fileName is missing, 500 if the call to the image host fails, and
\* otherwise 200 with the url the image host returned.
C19_UploadAnswers ==
    http.endpoint = "upload"
        => IF Missing(http.formData.file) \/ Missing(http.formData.fileName)
           THEN http.res.status = 400 /\ http.res.uploads = <<>>
           ELSE IF ~http.ik.ok
           THEN http.res.status = 500
           ELSE /\ http.res.status = 200
                /\ http.res.body = [url |-> http.ik.url]
                /\ http.res.uploads = <<http.formData>>

\* C19 witness: an upload with both fields whose call to the image host failed.
C19_Witness ==
    /\ http.endpoint = "upload"
    /\ ~Missing(http.formData.file) /\ ~Missing(http.formData.fileName)
    /\ ~http.ik.ok
    /\ http.res.status = 500

\* the step in which a write of a dashboard handler of session a fails
DashboardWriteFails(a, pc) ==
    apc[a] = pc /\ aarg[a].op \in {"approve", "reject", "return"}
        /\ atoast'[a] = "Error"

\* C20: for approve, reject and mark-returned, a failed request write ends the
\* handler with both stores and the session's list unchanged; a failed book
\* write ends the handler (no further write follows from it) with both stores
\* unchanged, so the request keeps the status the request write gave it.
C20_DashboardPartialFailure ==
    [][\A a \in Admins :
        /\ DashboardWriteFails(a, "updateRequest")
             => /\ apc'[a] = "idle" /\ aarg'[a] = NoArg
                /\ books' = books /\ bookRequests' = bookRequests
                /\ aview'[a] = aview[a]
        /\ DashboardWriteFails(a, "updateBook")
             => /\ apc'[a] = "idle" /\ aarg'[a] = NoArg
                /\ books' = books /\ bookRequests' = bookRequests
                /\ bookRequests[aarg[a].requestId].status = aarg[a].requestPatch.status
      ]_vars

\* C20 witness: the book write of a reject failed after its request write
\* succeeded: the request is stored rejected, the book is still unavailable and
\* the session's list still shows the request as pending.
C20_Witness ==
    \E a \in Admins, r \in DOMAIN bookRequests :
        /\ atoast[a] = "Error"
        /\ apc[a] = "idle"
        /\ bookRequests[r].status = "rejected"
        /\ books[bookRequests[r].bookId].status = "unavailable"
        /\ aview[a].page = "dashboard"
        /\ r \in DOMAIN aview[a].requests
        /\ aview[a].requests[r].status = "pending"

\* the notice of a registration that wrote the account and the profile
Registered == <<"register", "Registration successful!">>

\* C24: once a registration has succeeded in a session and the listener has
\* finished the profile reads that the sign-in of the new account started, the
\* auth context's user is the registered account with its stored role.
C24_RegisteredActorIsCurrent ==
    \A s \in Sessions :
        (ftoast[s] = Registered /\ profileReads[s] = {})
            => /\ firebaseUser[s] \in DOMAIN users
               /\ user[s] = UserData(firebaseUser[s], users[firebaseUser[s]])

\* C25: while the gateway's last signal of a session is a sign-out, the auth
\* context's user is null: no profile read that an earlier sign-in started
\* sets it afterwards.
C25_SignedOutActorIsNull ==
    \A s \in Sessions : firebaseUser[s] = "null" => user[s] = NoUser

\* the step in which the login of session s is rejected for the stored profile:
\* it has another role than the form, or it does not exist
LoginRejected(s) ==
    /\ fpc[s] = "getDoc"
    /\ fpc'[s] = "idle"
    /\ \/ ftoast'[s] = <<"login", "Invalid role">>
       \/ farg[s].email \notin DOMAIN users

\* C26: a login rejected for the role, or for a missing profile, leaves the
\* session without a gateway identity, and from then on until the next submit
\* the auth context's user is null.
C26_RejectedLoginSignsOut ==
    [][\A s \in Sessions :
        /\ LoginRejected(s) => firebaseUser'[s] = "null"
        /\ (ftoast[s] = <<"login", "Invalid role">> /\ ftoast'[s] = ftoast[s])
              => user'[s] = NoUser
      ]_vars

\* C29: in a deployment without an admin secret the verification endpoint
\* answers valid = false to every body, also to one without an adminCode.
C29_NoSecretNoValidCode ==
    (http.endpoint = "verify-admin-code" /\ env.ADMIN_SECRET_CODE = Undefined)
        => ~http.res.valid

\* C30: while no registration is between its account creation and its profile
\* write, every account of the gateway has a profile.
C30_RegistrationAllOrNothing ==
    (\A s \in Sessions : fpc[s] \notin {"createUser", "setDoc"})
        => accounts \subseteq DOMAIN users

\* the step in which the request write of a dashboard handler lands on request r
RequestWriteLands(a, r) ==
    /\ apc[a] = "updateRequest"
    /\ aarg[a].requestId = r
    /\ apc'[a] = "updateBook"

\* C22: a stored request is changed only by the request write of an approve, a
\* reject or a mark-returned on it; an approve changes at most its status and
\* due date, a reject or mark-returned at most its status; its book, its user
\* and its request date are never changed, and no request is removed.
C22_RequestFrame ==
    [][\A r \in DOMAIN bookRequests :
        /\ r \in DOMAIN bookRequests'
        /\ bookRequests'[r].bookId = bookRequests[r].bookId
        /\ bookRequests'[r].userId = bookRequests[r].userId
        /\ bookRequests'[r].requestDate = bookRequests[r].requestDate
        /\ bookRequests'[r] # bookRequests[r]
             => \E a \in Admins :
                    /\ RequestWriteLands(a, r)
                    /\ aarg[a].op # "approve"
                         => bookRequests'[r].dueDate = bookRequests[r].dueDate
      ]_vars

\* C22 witness: a request that was approved after the clock had advanced and
\* then marked returned still has its book, its user and its request date, and
\* the due date the approval gave it.
C22_Witness ==
    \E r \in DOMAIN bookRequests :
        /\ bookRequests[r].status = "returned"
        /\ bookRequests[r].bookId = 1 /\ bookRequests[r].userId = 1
        /\ parseDate(bookRequests[r].requestDate) = 0
        /\ parseDate(bookRequests[r].dueDate) = MaxClock + BORROW_DAYS * MsPerDay

\* the id of the request that the running handleRequestBook of session u has
\* created, 0 if it has created none
CreatedByRun(u) == IF uarg[u].op = "request" THEN uarg[u].ref ELSE 0

\* C28: a handleRequestBook that ends with the failure notice has created no
\* request and changes no book.
C28_FailedRequestCreatesNothing ==
    [][\A u \in Users :
        (upc[u] # "idle" /\ utoast'[u] = "Request failed")
            => /\ CreatedByRun(u) = 0
               /\ books' = books
      ]_vars

\* the step in which the write of an edit of session a lands, the edit having
\* been submitted with the status the form was loaded with
UntouchedEditLands(a) ==
    /\ apc[a] = "editBook"
    /\ ~aarg[a].statusTouched
    /\ atoast'[a] = "Book updated"

\* C27: the write of an edit submitted with the status field as loaded leaves
\* the book's stored status as it is when the write lands.
C27_EditKeepsStoredStatus ==
    [][\A a \in Admins :
        UntouchedEditLands(a)
            => books'[aarg[a].bookId].status = books[aarg[a].bookId].status
      ]_vars

\* the step in which a workflow handler of admin session a starts: approve,
\* reject, mark returned, toggle or soft-delete
AdminWorkflowStarts(a) ==
    /\ started' = started + 1
    /\ aarg'[a] # aarg[a] \/ aqueue'[a] # aqueue[a]
    /\ StartedWrite(a).op \in {"approve", "reject", "return", "toggle", "delete"}

\* the step in which handleRequestBook of member session u starts
MemberWorkflowStarts(u) ==
    /\ started' = started + 1
    /\ upc'[u] # upc[u]

\* C21: a workflow handler of a session starts only while no workflow handler
\* of that session is outstanding.
C21_OneWorkflowActionAtATime ==
    [][/\ \A a \in Admins : AdminWorkflowStarts(a) => apc[a] = "idle"
       /\ \A u \in Users : MemberWorkflowStarts(u) => upc[u] = "idle"
      ]_vars

\* the remote calls that a handler still has to wait for at a position
CallsLeft(pc) ==
    CASE pc \in {"getUser", "verify"} -> 3
      [] pc \in {"addDoc", "updateRequest", "createUser", "signIn"} -> 2
      [] pc \in {"updateBook", "editBook", "setDoc", "getDoc"} -> 1
      [] OTHER -> 0

\* the notices that end a handler
RequestNotices == {"Request submitted", "Request failed"}
AdminNotices(op) ==
    CASE op = "approve" -> {"Request approved", "Error"}
      [] op = "reject" -> {"Request rejected", "Error"}
      [] op = "return" -> {"Book returned", "Error"}
      [] OTHER -> {"Book updated", "Error"}
FormNotices(form) ==
    IF form = "register"
    THEN {<<form, "Invalid admin code">>, <<form, "Registration failed">>,
          <<form, "Registration successful!">>}
    ELSE {<<form, "Invalid admin code">>, <<form, "Login failed">>,
          <<form, "Invalid role">>, <<form, "Login successful!">>}

\* a dashboard handler or the edit form of admin session a is running
AdminHandlerRuns(a) ==
    apc[a] # "idle" /\ aarg[a].op \in {"approve", "reject", "return", "edit"}

\* every running handler has a remote call outstanding whose answer, success or
\* failure, it can take
HandlersCanGoOn ==
    /\ \A u \in Users :
          /\ upc[u] = "getUser" => \A ok \in BOOLEAN : ENABLED RequestGetUser(u, ok, 0)
          /\ upc[u] = "addDoc" => \A ok \in BOOLEAN : ENABLED RequestAddDoc(u, ok)
          /\ upc[u] = "updateBook" => \A ok \in BOOLEAN : ENABLED RequestUpdateBook(u, ok)
    /\ \A a \in Admins :
          /\ (AdminHandlerRuns(a) /\ apc[a] = "updateRequest")
                => \A ok \in BOOLEAN : ENABLED DashboardUpdateRequest(a, ok)
          /\ (AdminHandlerRuns(a) /\ apc[a] = "updateBook")
                => \A ok \in BOOLEAN : ENABLED DashboardUpdateBook(a, ok)
          /\ apc[a] = "editBook" => \A ok \in BOOLEAN : ENABLED EditUpdateBook(a, ok)
    /\ \A s \in Sessions :
          /\ fpc[s] = "verify" => \A ok \in BOOLEAN : ENABLED VerifyAdminCode(s, ok)
          /\ fpc[s] = "createUser" => ENABLED CreateUser(s, FALSE)
          /\ fpc[s] = "setDoc" => \A ok \in BOOLEAN : ENABLED SetUserDoc(s, ok)
          /\ fpc[s] = "signIn" => ENABLED SignIn(s, FALSE)
          /\ fpc[s] = "getDoc" => \A ok \in BOOLEAN : ENABLED GetUserDoc(s, ok)

====
